---- MODULE Spec2Model ----
\* Model of the refresh-reputation pallet (pallets/refresh-reputation/src/lib.rs):
\* the Payrolls and Records storage, the four dispatchables new_round, refresh,
\* receiver_all, receiver_all_proxy and the StartChallenge::start hook.
\*
\* The dispatchables carry no #[transactional] attribute, so a storage write
\* made before an error return stays in storage: every operator below returns
\* the storage as it is at the point where the Rust function returns.
\*
\* The collaborators (T::Currency, T::Reputation, T::ChallengeInfo) are
\* outside the pallet: what they answer is an input of the action, and the
\* calls the pallet makes on the ledger are kept in the call record `last`.
EXTENDS Integers, Sequences, FiniteSets, TLC

\* ---------------------------------------------------------------- bounds

\* MaxBalance and MaxU32 stand for u128::MAX and u32::MAX, MaxBlock bounds the
\* block number.
MaxBalance == 2
MaxU32 == 2
MaxBlock == 2

\* ------------------------------------------------------- configuration

UpdateStakingAmount == 1
MaxUpdateCount == 2
ConfirmationPeriod == 2
ProxyPeriod == 1
ProxyFeeDivisor == 2

Accounts == {1, 2}
NoAccount == 0
None == -1

VARIABLES Payrolls, Records, now, last_refresh_at, last

vars == <<Payrolls, Records, now, last_refresh_at, last>>

\* ------------------------------------------------------------ arithmetic

Min(a, b) == IF a < b THEN a ELSE b

checked_add(a, b) == IF a + b > MaxBalance THEN None ELSE a + b

checked_mul(a, b) == IF a * b > MaxBalance THEN None ELSE a * b

checked_add_u32(a, b) == IF a + b > MaxU32 THEN None ELSE a + b

saturating_add(a, b) == Min(a + b, MaxBalance)

saturating_mul(a, b) == Min(a * b, MaxBalance)

saturating_sub(a, b) == IF a < b THEN 0 ELSE a - b

RECURSIVE SumSeq(_)
SumSeq(s) == IF s = <<>> THEN 0 ELSE Head(s) + SumSeq(Tail(s))

\* --------------------------------------------------------------- storage

RecordDefault == [update_at |-> 0, fee |-> 0]

PayrollDefault == [count |-> 0, total_fee |-> 0]

\* ValueQuery: a read of an absent key yields the Default value.
PayrollsGet(P, k) == IF k \in DOMAIN P THEN P[k] ELSE PayrollDefault

RecordsGet(R, k1, k2) == IF <<k1, k2>> \in DOMAIN R THEN R[<<k1, k2>>] ELSE RecordDefault

PayrollsPut(P, k, v) == [x \in DOMAIN P \cup {k} |-> IF x = k THEN v ELSE P[x]]

RecordsPut(R, k1, k2, v) ==
    [x \in DOMAIN R \cup {<<k1, k2>>} |-> IF x = <<k1, k2>> THEN v ELSE R[x]]

PayrollsRemove(P, k) == [x \in DOMAIN P \ {k} |-> P[x]]

RecordsRemove(R, k1, k2) == [x \in DOMAIN R \ {<<k1, k2>>} |-> R[x]]

remove_prefix(R, k1) == [x \in {y \in DOMAIN R : y[1] # k1} |-> R[x]]

total_amount(payroll) ==
    saturating_add(saturating_mul(UpdateStakingAmount, payroll.count), payroll.total_fee)

\* ------------------------------------------------------ fee-split policy

is_allowed_proxy(lst, nw) == lst + ProxyPeriod <= nw

with_fee(total) ==
    LET proxy_fee == total \div ProxyFeeDivisor
    IN  [some |-> TRUE, proxy_fee |-> proxy_fee,
         without_fee |-> saturating_sub(total, proxy_fee)]

NoSplit == [some |-> FALSE, proxy_fee |-> 0, without_fee |-> 0]

checked_with_fee(total, lst, nw) ==
    IF is_allowed_proxy(lst, nw) THEN with_fee(total) ELSE NoSplit

\* ---------------------------------------------------------- ledger calls

LedgerCall(op, who, amount) == [op |-> op, who |-> who, amount |-> amount]

Released(log) == {i \in 1..Len(log) : log[i].op = "release"}

Staked(log) == {i \in 1..Len(log) : log[i].op = "staking"}

\* ------------------------------------------------------------ call record

\* What the call in progress did: its arguments, the collaborators' answers
\* (status: check_update_status / end_refresh / Reputation::new_round;
\* harvested: is_all_harvest; last_update: get_last_update_at), its result and
\* the ledger calls it made. existed: the Record start took was stored;
\* before: the Payrolls when the call began.
\* Between calls the record is NoCall, except that after a start that took a
\* stored Record and succeeded, or that repeated such a start, target and
\* pathfinder keep the disputed pair until the next call; again: this start
\* directly follows such a start on the same pair. After a successful
\* new_round the record keeps after_round = 1 until the next call, and after a
\* successful refresh that directly follows it, after_round = 2 and the
\* refresher; a refresh or start that comes next carries them.
NoCall ==
    [op |-> "idle", who |-> NoAccount, target |-> NoAccount, pathfinder |-> NoAccount,
     batch |-> <<>>, fees |-> <<>>, applied |-> 0, result |-> "Ok", ret |-> 0,
     log |-> <<>>, status |-> TRUE, harvested |-> TRUE, last_update |-> 0,
     existed |-> FALSE, again |-> FALSE, before |-> <<>>,
     after_round |-> 0, refresher |-> NoAccount]

Init ==
    /\ Payrolls = <<>>
    /\ Records = <<>>
    /\ now = 1
    /\ last_refresh_at = 0
    /\ last = NoCall

\* The block number advances between calls.
Tick ==
    /\ last.op = "idle"
    /\ now < MaxBlock
    /\ now' = now + 1
    /\ last' = NoCall
    /\ UNCHANGED <<Payrolls, Records, last_refresh_at>>

\* ------------------------------------------------------------- refresh

\* The fees share is taken to return: nothing, one unit, two units.
FeeValues == {0, 1, 2}

\* What the collaborators answer for one (target, score) pair of a batch:
\* T::Reputation::refresh_reputation fails, a ledger call of share fails, or
\* share returns the fee FeeRation.mul_floor(social_balance).
Outcomes ==
    {[kind |-> "ReputationErr", fee |-> 0], [kind |-> "ShareErr", fee |-> 0]}
    \cup {[kind |-> "Fee", fee |-> f] : f \in FeeValues}

share(user, out) ==
    IF out.kind = "ShareErr"
    THEN [err |-> "ShareErr", fee |-> 0, log |-> <<>>]
    ELSE [err |-> "Ok", fee |-> out.fee,
          log |-> <<LedgerCall("social_staking", user, out.fee)>>]

\* <Records<T>>::mutate(&pathfinder, &who, |_| Record { update_at, fee }):
\* the closure ignores its &mut argument and returns the new Record as the
\* result of mutate, which the caller drops; mutate then writes back the
\* value it read (the Default when the key was absent).
records_mutate(R, pathfinder, who, record) ==
    RecordsPut(R, pathfinder, who, RecordsGet(R, pathfinder, who))

do_refresh(R, pathfinder, who, update_at, out) ==
    IF out.kind = "ReputationErr"
    THEN [err |-> "ReputationErr", fee |-> 0, Records |-> R, applied |-> 0, log |-> <<>>]
    ELSE LET s == share(who, out)
         IN  IF s.err # "Ok"
             THEN [err |-> s.err, fee |-> 0, Records |-> R, applied |-> 1, log |-> <<>>]
             ELSE [err |-> "Ok", fee |-> s.fee,
                   Records |-> records_mutate(R, pathfinder, who,
                                              [update_at |-> update_at, fee |-> s.fee]),
                   applied |-> 1, log |-> s.log]

\* user_scores.iter().try_fold(0, |acc, user_score| ...): stops at the first
\* error, keeping what the earlier iterations wrote.
RECURSIVE refresh_fold(_, _, _, _, _, _)
refresh_fold(st, pathfinder, batch, outs, update_at, i) ==
    IF i > Len(batch) THEN st
    ELSE LET d == do_refresh(st.Records, pathfinder, batch[i], update_at, outs[i])
             st1 == [st EXCEPT !.Records = d.Records,
                               !.applied = st.applied + d.applied,
                               !.log = st.log \o d.log]
         IN  IF d.err # "Ok" THEN [st1 EXCEPT !.err = d.err]
             ELSE LET acc == checked_add(st.acc, d.fee)
                      st2 == [st1 EXCEPT !.fees = Append(st.fees, d.fee)]
                  IN  IF acc = None THEN [st2 EXCEPT !.err = "Overflow"]
                      ELSE refresh_fold([st2 EXCEPT !.acc = acc],
                                        pathfinder, batch, outs, update_at, i + 1)

\* mutate_payroll storing the batch's amounts instead of adding them.
mutate_payroll_overwrite(P, pathfinder, amount, count) ==
    [err |-> "Ok",
     Payrolls |-> PayrollsPut(P, pathfinder, [count |-> count, total_fee |-> amount])]

mutate_payroll(P, pathfinder, amount, count) ==
    LET f == PayrollsGet(P, pathfinder)
        total_fee == checked_add(f.total_fee, amount)
        cnt == checked_add_u32(f.count, count)
    IN  IF total_fee = None \/ cnt = None
        THEN [err |-> "Overflow", Payrolls |-> P]
        ELSE [err |-> "Ok",
              Payrolls |-> PayrollsPut(P, pathfinder, [count |-> cnt, total_fee |-> total_fee])]

\* T::Reputation::set_last_refresh_at(): the port notes the current block.
set_last_refresh_at(nw) == nw

RefreshReturn(result, P, R, lra, st, log) ==
    [result |-> result, Payrolls |-> P, Records |-> R, last_refresh_at |-> lra,
     fees |-> st.fees, applied |-> st.applied, log |-> log]

FoldInit(R) ==
    [err |-> "Ok", Records |-> R, acc |-> 0, fees |-> <<>>, applied |-> 0, log |-> <<>>]

\* refresh_checks with the round consulted ahead of the batch length.
refresh_checks_round_first(user_count, status) ==
    IF ~status THEN "NoUpdatesAllowed"
    ELSE IF user_count > MaxUpdateCount THEN "QuantityLimitReached"
    ELSE "Ok"

\* refresh_checks without the round check.
refresh_checks_no_round(user_count, status) ==
    IF user_count > MaxUpdateCount THEN "QuantityLimitReached" ELSE "Ok"

\* The two checks before anything is staked, in the order of the code: the
\* batch length against MaxUpdateCount, then check_update_status.
refresh_checks(user_count, status) ==
    IF user_count > MaxUpdateCount THEN "QuantityLimitReached"
    ELSE IF ~status THEN "NoUpdatesAllowed"
    ELSE "Ok"

refresh(P, R, lra, nw, pathfinder, batch, status, stake_ok, outs) ==
    LET user_count == Len(batch)
        st0 == FoldInit(R)
        amount == checked_mul(UpdateStakingAmount, user_count)
    IN  IF refresh_checks(user_count, status) # "Ok"
        THEN RefreshReturn(refresh_checks(user_count, status), P, R, lra, st0, <<>>)
        ELSE IF amount = None
        THEN RefreshReturn("Overflow", P, R, lra, st0, <<>>)
        ELSE IF ~stake_ok
        THEN RefreshReturn("StakingErr", P, R, lra, st0, <<>>)
        ELSE LET staked == <<LedgerCall("staking", pathfinder, amount)>>
                 st == refresh_fold(st0, pathfinder, batch, outs, nw, 1)
             IN  IF st.err # "Ok"
                 THEN RefreshReturn(st.err, P, st.Records, lra, st, staked \o st.log)
                 ELSE LET m == mutate_payroll(P, pathfinder, st.acc, user_count)
                      IN  IF m.err # "Ok"
                          THEN RefreshReturn(m.err, P, st.Records, lra, st, staked \o st.log)
                          ELSE RefreshReturn("Ok", m.Payrolls, st.Records,
                                             set_last_refresh_at(nw), st, staked \o st.log)

\* The batches of up to MaxUpdateCount targets (the score of a pair is only
\* handed to the Reputation port), and the over-long batches of one target.
Batches ==
    UNION {[1..n -> Accounts] : n \in 0..MaxUpdateCount}
    \cup {[i \in 1..(MaxUpdateCount + 1) |-> t] : t \in Accounts}

\* The collaborators' answers are drawn only where refresh consults them: the
\* ledger's answer to staking once the length and round checks have passed,
\* the per-pair outcomes once the stake is held, and no outcome after the pair
\* on which the fold stops.
StakeAnswers(batch, status) ==
    IF Len(batch) <= MaxUpdateCount /\ status THEN BOOLEAN ELSE {TRUE}

OutcomesByLen ==
    [n \in 0..MaxUpdateCount |->
        {o \in [1..n -> Outcomes] :
            \A i \in 1..(n - 1) : o[i].kind # "Fee" => o[i + 1] = o[i]}]

OutcomesOf(batch, status, stake_ok) ==
    IF Len(batch) <= MaxUpdateCount /\ status /\ stake_ok
    THEN OutcomesByLen[Len(batch)]
    ELSE {<<>>}

Refresh ==
    /\ last.op = "idle"
    /\ \E pathfinder \in Accounts, batch \in Batches, status \in BOOLEAN :
         \E stake_ok \in StakeAnswers(batch, status) :
           \E outs \in OutcomesOf(batch, status, stake_ok) :
             \E r \in {refresh(Payrolls, Records, last_refresh_at, now,
                               pathfinder, batch, status, stake_ok, outs)} :
               /\ Payrolls' = r.Payrolls
               /\ Records' = r.Records
               /\ last_refresh_at' = r.last_refresh_at
               /\ last' = [NoCall EXCEPT !.op = "refresh", !.who = pathfinder,
                                         !.pathfinder = pathfinder, !.batch = batch,
                                         !.fees = r.fees, !.applied = r.applied,
                                         !.result = r.result, !.log = r.log,
                                         !.status = status, !.before = Payrolls,
                                         !.after_round =
                                             IF last.after_round = 1 THEN 1 ELSE 0]
               /\ UNCHANGED now

\* ----------------------------------------------------------- new_round

\* Payrolls::drain().try_fold(0, ...): the iterator removes an entry when it
\* yields it, so the entry on which the fold stops is already gone and the
\* entries after it stay. `order` is the storage's iteration order; fail_at
\* is the release call the ledger rejects (0: none).
RECURSIVE drain_fold(_, _, _, _)
drain_fold(st, order, fail_at, i) ==
    IF i > Len(order) THEN st
    ELSE LET pathfinder == order[i]
             payroll == st.Payrolls[pathfinder]
             P1 == PayrollsRemove(st.Payrolls, pathfinder)
             split == with_fee(total_amount(payroll))
         IN  IF fail_at = i
             THEN [st EXCEPT !.err = "ReleaseErr", !.Payrolls = P1]
             ELSE LET log1 == Append(st.log, LedgerCall("release", pathfinder, split.without_fee))
                      acc == checked_add(st.acc, split.proxy_fee)
                  IN  IF acc = None
                      THEN [st EXCEPT !.err = "Overflow", !.Payrolls = P1, !.log = log1]
                      ELSE drain_fold([st EXCEPT !.Payrolls = P1, !.log = log1, !.acc = acc],
                                      order, fail_at, i + 1)

\* new_round_checks with the elapsed-time check ahead of the harvest check.
new_round_checks_time_first(status, harvested, lra, nw) ==
    IF ~status THEN "ReputationErr"
    ELSE IF ~is_allowed_proxy(lra, nw) THEN "ChallengeTimeout"
    ELSE IF ~harvested THEN "ChallengeNotClaimed"
    ELSE "Ok"

\* new_round_checks without the elapsed-time check.
new_round_checks_no_window(status, harvested, lra, nw) ==
    IF ~status THEN "ReputationErr"
    ELSE IF ~harvested THEN "ChallengeNotClaimed"
    ELSE "Ok"

\* The three checks before the drain, in the order of the code:
\* T::Reputation::new_round()?, is_all_harvest, is_allowed_proxy.
new_round_checks(status, harvested, lra, nw) ==
    IF ~status THEN "ReputationErr"
    ELSE IF ~harvested THEN "ChallengeNotClaimed"
    ELSE IF ~is_allowed_proxy(lra, nw) THEN "ChallengeTimeout"
    ELSE "Ok"

new_round(P, lra, nw, who, status, harvested, order, fail_at) ==
    IF new_round_checks(status, harvested, lra, nw) # "Ok"
    THEN [result |-> new_round_checks(status, harvested, lra, nw),
          Payrolls |-> P, log |-> <<>>]
    ELSE LET st == drain_fold([err |-> "Ok", Payrolls |-> P, acc |-> 0, log |-> <<>>],
                              order, fail_at, 1)
         IN  IF st.err # "Ok"
             THEN [result |-> st.err, Payrolls |-> st.Payrolls, log |-> st.log]
             ELSE IF fail_at = Len(order) + 1
             THEN [result |-> "ReleaseErr", Payrolls |-> st.Payrolls, log |-> st.log]
             ELSE [result |-> "Ok", Payrolls |-> st.Payrolls,
                   log |-> Append(st.log, LedgerCall("release", who, st.acc))]

Orders(P) ==
    {o \in [1..Cardinality(DOMAIN P) -> DOMAIN P] :
        \A i, j \in DOMAIN o : i # j => o[i] # o[j]}

\* The iteration order and the ledger's answers matter only when the three
\* checks before the drain pass.
DrainInputs(P, lra, nw, status, harvested) ==
    IF new_round_checks(status, harvested, lra, nw) = "Ok"
    THEN {<<o, f>> : o \in Orders(P), f \in 0..(Cardinality(DOMAIN P) + 1)}
    ELSE {<<<<>>, 0>>}

NewRound ==
    /\ last.op = "idle"
    /\ \E who \in Accounts, status \in BOOLEAN, harvested \in BOOLEAN :
         \E in \in DrainInputs(Payrolls, last_refresh_at, now, status, harvested) :
           \E r \in {new_round(Payrolls, last_refresh_at, now, who, status, harvested,
                               in[1], in[2])} :
             /\ Payrolls' = r.Payrolls
             /\ last' = [NoCall EXCEPT !.op = "new_round", !.who = who,
                                       !.result = r.result, !.log = r.log,
                                       !.status = status, !.harvested = harvested,
                                       !.before = Payrolls]
             /\ UNCHANGED <<Records, now, last_refresh_at>>

\* --------------------------------------------- receiver_all, receiver_all_proxy

receiver_all(P, R, pathfinder, status, release_ok) ==
    IF ~status THEN [result |-> "ReputationErr", Payrolls |-> P, Records |-> R, log |-> <<>>]
    ELSE LET payroll == PayrollsGet(P, pathfinder)
             P1 == PayrollsRemove(P, pathfinder)
         IN  IF ~release_ok
             THEN [result |-> "ReleaseErr", Payrolls |-> P1, Records |-> R, log |-> <<>>]
             ELSE [result |-> "Ok", Payrolls |-> P1,
                   Records |-> remove_prefix(R, pathfinder),
                   log |-> <<LedgerCall("release", pathfinder, total_amount(payroll))>>]

ReceiverAll ==
    /\ last.op = "idle"
    /\ \E pathfinder \in Accounts, status \in BOOLEAN :
         \E release_ok \in (IF status THEN BOOLEAN ELSE {TRUE}) :
           \E r \in {receiver_all(Payrolls, Records, pathfinder, status, release_ok)} :
             /\ Payrolls' = r.Payrolls
             /\ Records' = r.Records
             /\ last' = [NoCall EXCEPT !.op = "receiver_all", !.who = pathfinder,
                                       !.pathfinder = pathfinder,
                                       !.result = r.result, !.log = r.log,
                                       !.status = status, !.before = Payrolls]
             /\ UNCHANGED <<now, last_refresh_at>>

\* proxy_split with the unconditional split new_round uses.
proxy_split_unconditional(payroll, last_update, nw) ==
    with_fee(total_amount(payroll))

\* payroll.total_amount().checked_with_fee(last, now).ok_or(FailedProxy)
proxy_split(payroll, last_update, nw) ==
    checked_with_fee(total_amount(payroll), last_update, nw)

receiver_all_proxy(P, R, nw, proxy, pathfinder, status, last_update, fail_at) ==
    IF ~status THEN [result |-> "ReputationErr", Payrolls |-> P, Records |-> R, log |-> <<>>]
    ELSE LET payroll == PayrollsGet(P, pathfinder)
             P1 == PayrollsRemove(P, pathfinder)
             split == proxy_split(payroll, last_update, nw)
         IN  IF ~split.some
             THEN [result |-> "FailedProxy", Payrolls |-> P1, Records |-> R, log |-> <<>>]
             ELSE LET R1 == remove_prefix(R, pathfinder)
                      log1 == <<LedgerCall("release", proxy, split.proxy_fee)>>
                      log2 == Append(log1, LedgerCall("release", pathfinder, split.without_fee))
                  IN  IF fail_at = 1
                      THEN [result |-> "ReleaseErr", Payrolls |-> P1, Records |-> R1,
                            log |-> <<>>]
                      ELSE IF fail_at = 2
                      THEN [result |-> "ReleaseErr", Payrolls |-> P1, Records |-> R1,
                            log |-> log1]
                      ELSE [result |-> "Ok", Payrolls |-> P1, Records |-> R1, log |-> log2]

ProxyInputs(nw, status) ==
    IF status
    THEN {in \in (0..nw) \X (0..2) : in[2] # 0 => is_allowed_proxy(in[1], nw)}
    ELSE {<<0, 0>>}

ReceiverAllProxy ==
    /\ last.op = "idle"
    /\ \E proxy \in Accounts, pathfinder \in Accounts, status \in BOOLEAN :
         \E in \in ProxyInputs(now, status) :
           \E r \in {receiver_all_proxy(Payrolls, Records, now, proxy, pathfinder,
                                        status, in[1], in[2])} :
             /\ Payrolls' = r.Payrolls
             /\ Records' = r.Records
             /\ last' = [NoCall EXCEPT !.op = "receiver_all_proxy", !.who = proxy,
                                       !.pathfinder = pathfinder,
                                       !.result = r.result, !.log = r.log,
                                       !.status = status, !.last_update = in[1],
                                       !.before = Payrolls]
             /\ UNCHANGED <<now, last_refresh_at>>

\* ------------------------------------------------- StartChallenge::start

\* payrolls_mutate storing the debited Payroll the closure builds.
payrolls_mutate_assigning(P, pathfinder, record) ==
    LET f == PayrollsGet(P, pathfinder)
    IN  PayrollsPut(P, pathfinder,
                    [count |-> saturating_sub(f.count, 1),
                     total_fee |-> saturating_sub(f.total_fee, record.fee)])

\* Payrolls::<T>::mutate(&pathfinder, |f| Payroll { .. }): the closure builds
\* the debited Payroll as its result and never assigns it to *f; mutate writes
\* back the value it read (the Default when the key was absent).
payrolls_mutate(P, pathfinder, record) ==
    PayrollsPut(P, pathfinder, PayrollsGet(P, pathfinder))

\* in_confirmation_period accepting the block at which the period ends.
in_confirmation_period_inclusive(record, nw) ==
    record.update_at + ConfirmationPeriod >= nw

\* record.update_at + T::ConfirmationPeriod::get() > block_number()
in_confirmation_period(record, nw) ==
    record.update_at + ConfirmationPeriod > nw

start(P, R, nw, target, pathfinder, status) ==
    IF ~status
    THEN [result |-> "NoUpdatesAllowed", ret |-> 0, Payrolls |-> P, Records |-> R]
    ELSE LET record == RecordsGet(R, target, pathfinder)
             R1 == RecordsRemove(R, target, pathfinder)
         IN  IF ~in_confirmation_period(record, nw)
             THEN [result |-> "ChallengeTimeout", ret |-> 0, Payrolls |-> P, Records |-> R1]
             ELSE [result |-> "Ok", ret |-> record.fee,
                   Payrolls |-> payrolls_mutate(P, pathfinder, record), Records |-> R1]

Start ==
    /\ last.op = "idle"
    /\ \E target \in Accounts, pathfinder \in Accounts, status \in BOOLEAN :
         \E r \in {start(Payrolls, Records, now, target, pathfinder, status)} :
           /\ Payrolls' = r.Payrolls
           /\ Records' = r.Records
           /\ last' = [NoCall EXCEPT !.op = "start", !.target = target,
                                     !.pathfinder = pathfinder,
                                     !.result = r.result, !.ret = r.ret,
                                     !.status = status,
                                     !.existed = (<<target, pathfinder>> \in DOMAIN Records),
                                     !.again = (last.target = target
                                                /\ last.pathfinder = pathfinder),
                                     !.before = Payrolls,
                                     !.after_round =
                                         IF last.after_round = 2 THEN 2 ELSE 0,
                                     !.refresher = last.refresher]
           /\ UNCHANGED <<now, last_refresh_at>>

\* The call returns to the dispatcher.
Return ==
    /\ last.op # "idle"
    /\ last' = IF last.op = "start" /\ ((last.result = "Ok" /\ last.existed) \/ last.again)
               THEN [NoCall EXCEPT !.target = last.target, !.pathfinder = last.pathfinder]
               ELSE IF last.op = "new_round" /\ last.result = "Ok"
               THEN [NoCall EXCEPT !.after_round = 1]
               ELSE IF last.op = "refresh" /\ last.result = "Ok" /\ last.after_round = 1
               THEN [NoCall EXCEPT !.after_round = 2, !.refresher = last.pathfinder]
               ELSE NoCall
    /\ UNCHANGED <<Payrolls, Records, now, last_refresh_at>>

Next ==
    \/ Tick
    \/ NewRound
    \/ Refresh
    \/ ReceiverAll
    \/ ReceiverAllProxy
    \/ Start
    \/ Return

Spec == Init /\ [][Next]_vars

\* ================================================================ claims

RecordKeys(R, pathfinder) == {k \in DOMAIN R : k[1] = pathfinder}

RECURSIVE SumFees(_, _)
SumFees(R, K) ==
    IF K = {} THEN 0
    ELSE LET k == CHOOSE x \in K : TRUE IN R[k].fee + SumFees(R, K \ {k})

\* The fee of the last pair of the batch that names target t.
LastFeeOf(batch, fees, t) ==
    fees[CHOOSE i \in 1..Len(batch) :
            batch[i] = t /\ \A j \in (i + 1)..Len(batch) : batch[j] # t]

\* C1: in every reachable state, for every pathfinder P, Payroll(P).total_fee
\* is the sum of the fees of the Records keyed by P and Payroll(P).count is
\* the number of those Records.
CoreAccountingInvariant ==
    \A p \in Accounts :
        /\ PayrollsGet(Payrolls, p).total_fee = SumFees(Records, RecordKeys(Records, p))
        /\ PayrollsGet(Payrolls, p).count = Cardinality(RecordKeys(Records, p))

\* C2: a successful refresh by P of a batch of n pairs leaves Payroll(P) with
\* its previous total_fee plus the sum of the n fees share returned, and its
\* previous count plus n.
RefreshAccumulatesPayroll ==
    (last.op = "refresh" /\ last.result = "Ok") =>
        /\ Len(last.fees) = Len(last.batch)
        /\ PayrollsGet(Payrolls, last.pathfinder) =
             [count |-> PayrollsGet(last.before, last.pathfinder).count + Len(last.batch),
              total_fee |-> PayrollsGet(last.before, last.pathfinder).total_fee
                            + SumSeq(last.fees)]

\* A second refresh has succeeded on top of an earlier one: the batch holds
\* one pair with fee 1 and the Payroll holds two updates and a total fee of 2.
RefreshAccumulatesWitness ==
    /\ last.op = "refresh"
    /\ last.result = "Ok"
    /\ last.fees = <<1>>
    /\ PayrollsGet(last.before, last.pathfinder) = [count |-> 1, total_fee |-> 1]
    /\ PayrollsGet(Payrolls, last.pathfinder) = [count |-> 2, total_fee |-> 2]

\* C3: when P has refreshed A (the Record keyed (P, A) exists) and that
\* Record is inside the confirmation period, a successful start(A, P) removes
\* that Record, lowers Payroll(P).count by 1 and Payroll(P).total_fee by the
\* Record's fee, saturating at zero, and returns the Record's fee.
StartDebitsChallengedRecord ==
    [][(/\ last'.op = "start"
        /\ last'.result = "Ok"
        /\ <<last'.pathfinder, last'.target>> \in DOMAIN Records
        /\ Records[<<last'.pathfinder, last'.target>>].update_at + ConfirmationPeriod > now)
       =>
       LET record == Records[<<last'.pathfinder, last'.target>>]
           payroll == PayrollsGet(Payrolls, last'.pathfinder)
       IN  /\ <<last'.pathfinder, last'.target>> \notin DOMAIN Records'
           /\ PayrollsGet(Payrolls', last'.pathfinder) =
                [count |-> saturating_sub(payroll.count, 1),
                 total_fee |-> saturating_sub(payroll.total_fee, record.fee)]
           /\ last'.ret = record.fee]_vars

\* C4: a start that directly follows a successful start on the same pair (so
\* no refresh of the pair lies in between) fails.
RepeatedStartFails ==
    (last.op = "start" /\ last.again) => last.result # "Ok"

\* C5: after a successful refresh by P, every target of the batch has the
\* Record keyed (P, target), with update_at the current block number and fee
\* the fee share returned for it.
RefreshWritesRecord ==
    (last.op = "refresh" /\ last.result = "Ok") =>
        \A i \in 1..Len(last.batch) :
            /\ <<last.pathfinder, last.batch[i]>> \in DOMAIN Records
            /\ Records[<<last.pathfinder, last.batch[i]>>] =
                 [update_at |-> now, fee |-> LastFeeOf(last.batch, last.fees, last.batch[i])]

\* C6: a refresh that fails leaves the Payrolls, the Records and the
\* last-refresh timestamp as they were and has made no ledger call that
\* stays (no stake held, no fee staked).
FailedRefreshRetainsNothing ==
    [][(last'.op = "refresh" /\ last'.result # "Ok") =>
         /\ Payrolls' = Payrolls
         /\ Records' = Records
         /\ last_refresh_at' = last_refresh_at
         /\ last'.log = <<>>]_vars

IsDrain(op) == op \in {"new_round", "receiver_all", "receiver_all_proxy"}

\* C7: a drain operation (new_round, receiver_all, receiver_all_proxy) that
\* returns an error leaves every Payroll and every Record as before the call
\* and has released nothing.
FailedDrainCommitsNothing ==
    [][(IsDrain(last'.op) /\ last'.result # "Ok") =>
         /\ Payrolls' = Payrolls
         /\ Records' = Records
         /\ Released(last'.log) = {}]_vars

\* C8: receiver_all_proxy called when the refresh phase has ended and the
\* time from the last-update timestamp to now is short of the eligibility
\* threshold fails with FailedProxy and releases nothing.
ProxyBeforeWindowFails ==
    (/\ last.op = "receiver_all_proxy"
     /\ last.status
     /\ ~is_allowed_proxy(last.last_update, now))
    => (last.result = "FailedProxy" /\ Released(last.log) = {})

\* A proxy was rejected for a pathfinder that has refreshed (its Records are
\* still stored) at block 2 with the last update at block 2.
ProxyBeforeWindowWitness ==
    /\ last.op = "receiver_all_proxy"
    /\ last.status
    /\ now = 2
    /\ last.last_update = 2
    /\ last.who # last.pathfinder
    /\ last.result = "FailedProxy"
    /\ RecordKeys(Records, last.pathfinder) # {}

\* C9: a successful receiver_all_proxy(pathfinder) releases to the proxy and
\* to the pathfinder amounts that add up to UpdateStakingAmount * count +
\* total_fee of the Payroll before the call, resets the Payroll and removes
\* every Record keyed by the pathfinder.
ProxySplitsTotalAmount ==
    [][(last'.op = "receiver_all_proxy" /\ last'.result = "Ok") =>
         LET payroll == PayrollsGet(Payrolls, last'.pathfinder)
         IN  /\ Len(last'.log) = 2
             /\ last'.log[1] = LedgerCall("release", last'.who, last'.log[1].amount)
             /\ last'.log[2] = LedgerCall("release", last'.pathfinder, last'.log[2].amount)
             /\ last'.log[1].amount + last'.log[2].amount =
                  UpdateStakingAmount * payroll.count + payroll.total_fee
             /\ PayrollsGet(Payrolls', last'.pathfinder) = PayrollDefault
             /\ RecordKeys(Records', last'.pathfinder) = {}]_vars

\* C10 as stated: whenever not all challenges are harvested, new_round fails
\* with ChallengeNotClaimed whatever the Reputation port answers.
NewRoundNotClaimedWhateverRound ==
    (last.op = "new_round" /\ ~last.harvested) => last.result = "ChallengeNotClaimed"

\* C10, amended: whenever not all challenges are harvested, new_round drains
\* no Payroll and releases nothing, whatever the elapsed time; it fails with
\* ChallengeNotClaimed when the Reputation port accepted the new round, and
\* with the port's own error when the port rejected it.
NewRoundNotClaimed ==
    (last.op = "new_round" /\ ~last.harvested) =>
        /\ Payrolls = last.before
        /\ last.log = <<>>
        /\ last.result = IF last.status THEN "ChallengeNotClaimed" ELSE "ReputationErr"

\* new_round was rejected with ChallengeNotClaimed while a Payroll was stored
\* and the elapsed time since the last refresh was also short.
NewRoundNotClaimedWitness ==
    /\ last.op = "new_round"
    /\ last.status
    /\ ~last.harvested
    /\ last.result = "ChallengeNotClaimed"
    /\ ~is_allowed_proxy(last_refresh_at, now)
    /\ \E p \in DOMAIN Payrolls : Payrolls[p].count > 0

\* C11: refresh with a batch longer than MaxUpdateCount fails with
\* QuantityLimitReached before any other check or effect, whether or not the
\* round permits updates: no ledger call is made (nothing staked), no score is
\* applied, and the Payrolls, the Records and the last-refresh timestamp stay
\* as they were.
OverlongBatchRejectedFirst ==
    [][(last'.op = "refresh" /\ Len(last'.batch) > MaxUpdateCount) =>
         /\ last'.result = "QuantityLimitReached"
         /\ last'.log = <<>>
         /\ last'.applied = 0
         /\ Payrolls' = Payrolls
         /\ Records' = Records
         /\ last_refresh_at' = last_refresh_at]_vars

\* An over-long batch was rejected with QuantityLimitReached while the round
\* did not permit updates and the pathfinder already held a Payroll and
\* Records.
OverlongBatchWitness ==
    /\ last.op = "refresh"
    /\ Len(last.batch) = MaxUpdateCount + 1
    /\ ~last.status
    /\ last.result = "QuantityLimitReached"
    /\ PayrollsGet(Payrolls, last.pathfinder).count > 0
    /\ RecordKeys(Records, last.pathfinder) # {}

\* The stored Records of the pair (target, pathfinder): the one refresh wrote
\* for the pathfinder's update of the target, and the one start takes.
PairRecords(R, target, pathfinder) ==
    {<<pathfinder, target>>, <<target, pathfinder>>} \cap DOMAIN R

\* C12: while the round permits updates, start(target, pathfinder) on a
\* stored Record of the pair whose update_at + ConfirmationPeriod <= now fails
\* with ChallengeTimeout and leaves every Payroll as it was.
ExpiredStartTimesOut ==
    [][(/\ last'.op = "start"
        /\ last'.status
        /\ \E k \in PairRecords(Records, last'.target, last'.pathfinder) :
              Records[k].update_at + ConfirmationPeriod <= now)
       => (last'.result = "ChallengeTimeout" /\ Payrolls' = Payrolls)]_vars

\* A start on a pair the pathfinder had refreshed was rejected with
\* ChallengeTimeout at block ConfirmationPeriod while the pathfinder held a
\* Payroll of one update or more.
ExpiredStartWitness ==
    /\ last.op = "start"
    /\ last.status
    /\ last.target # last.pathfinder
    /\ now = ConfirmationPeriod
    /\ <<last.pathfinder, last.target>> \in DOMAIN Records
    /\ Records[<<last.pathfinder, last.target>>].update_at + ConfirmationPeriod <= now
    /\ last.result = "ChallengeTimeout"
    /\ PayrollsGet(Payrolls, last.pathfinder).count > 0

IsUpdate(op) == op \in {"refresh", "start"}

\* A call that changes nothing: the Payrolls, the Records and the last-refresh
\* timestamp stay as they were and no ledger call is made.
ChangesNothing(P, R, lra, P1, R1, lra1, log) ==
    P1 = P /\ R1 = R /\ lra1 = lra /\ log = <<>>

\* C13 as stated: over any sequence of operations, a refresh or start made
\* while the Reputation port does not permit updates fails with
\* NoUpdatesAllowed and changes nothing, and a receiver_all or
\* receiver_all_proxy made before the port reports the refresh phase ended
\* fails with the port's error and changes no Payroll and no Record.
RoundGatingNoUpdatesAllowed ==
    [][/\ (IsUpdate(last'.op) /\ ~last'.status) =>
            /\ last'.result = "NoUpdatesAllowed"
            /\ ChangesNothing(Payrolls, Records, last_refresh_at,
                              Payrolls', Records', last_refresh_at', last'.log)
       /\ (last'.op \in {"receiver_all", "receiver_all_proxy"} /\ ~last'.status) =>
            /\ last'.result = "ReputationErr"
            /\ ChangesNothing(Payrolls, Records, last_refresh_at,
                              Payrolls', Records', last_refresh_at', last'.log)]_vars

\* C13, amended: as above, except that a refresh whose batch is longer than
\* MaxUpdateCount fails with QuantityLimitReached rather than NoUpdatesAllowed,
\* the length being checked before the round; in every case nothing changes.
RoundGating ==
    [][/\ (IsUpdate(last'.op) /\ ~last'.status) =>
            /\ last'.result = IF last'.op = "refresh"
                                 /\ Len(last'.batch) > MaxUpdateCount
                              THEN "QuantityLimitReached" ELSE "NoUpdatesAllowed"
            /\ ChangesNothing(Payrolls, Records, last_refresh_at,
                              Payrolls', Records', last_refresh_at', last'.log)
       /\ (last'.op \in {"receiver_all", "receiver_all_proxy"} /\ ~last'.status) =>
            /\ last'.result = "ReputationErr"
            /\ ChangesNothing(Payrolls, Records, last_refresh_at,
                              Payrolls', Records', last_refresh_at', last'.log)]_vars

\* A refresh of an admissible, non-empty batch was rejected with
\* NoUpdatesAllowed while the round did not permit updates and the pathfinder
\* already held a Payroll and Records.
RoundGatingWitness ==
    /\ last.op = "refresh"
    /\ ~last.status
    /\ Len(last.batch) \in 1..MaxUpdateCount
    /\ last.result = "NoUpdatesAllowed"
    /\ PayrollsGet(Payrolls, last.pathfinder).count > 0
    /\ RecordKeys(Records, last.pathfinder) # {}

\* C14: new_round succeeds only when all challenges are harvested and the
\* time from the last successful refresh to now satisfies the eligibility
\* window; when the Reputation port accepts the round and the challenges are
\* harvested but the window is not satisfied, it fails with ChallengeTimeout
\* and drains nothing. The last-refresh timestamp is the block of the last
\* successful refresh, so the window holds between that refresh and the next
\* successful new_round.
NewRoundAfterWindow ==
    /\ (last.op = "refresh" /\ last.result = "Ok") => last_refresh_at = now
    /\ (last.op = "new_round" /\ last.result = "Ok") =>
         (last.harvested /\ is_allowed_proxy(last_refresh_at, now))
    /\ (/\ last.op = "new_round"
        /\ last.status
        /\ last.harvested
        /\ ~is_allowed_proxy(last_refresh_at, now))
       => (last.result = "ChallengeTimeout" /\ Payrolls = last.before /\ last.log = <<>>)

\* new_round was rejected with ChallengeTimeout in the block of a successful
\* refresh, the port having accepted the round and all challenges being
\* harvested, while a Payroll was stored.
NewRoundAfterWindowWitness ==
    /\ last.op = "new_round"
    /\ last.status
    /\ last.harvested
    /\ last_refresh_at = now
    /\ last.result = "ChallengeTimeout"
    /\ \E p \in DOMAIN Payrolls : Payrolls[p].count > 0

\* The amount the spec states for a Payroll: UpdateStakingAmount * count +
\* total_fee, as integers (total_amount without the clamping).
ExactAmount(payroll) == UpdateStakingAmount * payroll.count + payroll.total_fee

\* The amounts of the ledger calls of a log, in order.
Amounts(log) == [i \in 1..Len(log) |-> log[i].amount]

\* C15: a successful new_round removes every Payroll entry and no Record; it
\* makes one release per drained pathfinder, of the remainder of the
\* unconditional split of UpdateStakingAmount * count + total_fee of its
\* Payroll, then one release to the caller of the sum of the proxy cuts, so
\* that the releases add up to the sum of those amounts over the drained
\* Payrolls.
NewRoundReleasesEverything ==
    [][(last'.op = "new_round" /\ last'.result = "Ok") =>
         LET log == last'.log
             n == Cardinality(DOMAIN Payrolls)
             due == [i \in 1..n |-> ExactAmount(Payrolls[log[i].who])]
             cuts == [i \in 1..n |-> with_fee(due[i]).proxy_fee]
         IN  /\ DOMAIN Payrolls' = {}
             /\ Records' = Records
             /\ Len(log) = n + 1
             /\ {log[i].who : i \in 1..n} = DOMAIN Payrolls
             /\ \A i \in 1..n :
                  log[i] = LedgerCall("release", log[i].who, with_fee(due[i]).without_fee)
             /\ log[n + 1] = LedgerCall("release", last'.who, SumSeq(cuts))
             /\ SumSeq(Amounts(log)) = SumSeq(due)]_vars

\* C16: payout arithmetic never saturates silently: a drain that gets as far
\* as computing the amount of a Payroll whose UpdateStakingAmount * count +
\* total_fee exceeds the Balance range fails with Overflow (new_round may have
\* failed on an earlier release instead) and does not succeed with a clamped
\* amount.
PayoutNeverSaturates ==
    /\ (/\ last.op = "receiver_all"
        /\ last.status
        /\ ExactAmount(PayrollsGet(last.before, last.pathfinder)) > MaxBalance)
       => last.result = "Overflow"
    /\ (/\ last.op = "receiver_all_proxy"
        /\ last.status
        /\ is_allowed_proxy(last.last_update, now)
        /\ ExactAmount(PayrollsGet(last.before, last.pathfinder)) > MaxBalance)
       => last.result = "Overflow"
    /\ (/\ last.op = "new_round"
        /\ new_round_checks(last.status, last.harvested, last_refresh_at, now) = "Ok"
        /\ \E p \in DOMAIN last.before : ExactAmount(last.before[p]) > MaxBalance)
       => last.result \in {"Overflow", "ReleaseErr"}

\* C17: a successful receiver_all by pathfinder P makes one ledger call, the
\* release to P of UpdateStakingAmount * count + total_fee of P's Payroll (no
\* split), resets Payroll(P), removes every Record keyed by P and leaves the
\* Payroll and the Records of every other pathfinder as they were; called on
\* the Payroll it has just reset (an immediate repeat) it releases 0.
ReceiverAllReleasesTotal ==
    [][(last'.op = "receiver_all" /\ last'.result = "Ok") =>
         LET p == last'.pathfinder
         IN  /\ last'.log = <<LedgerCall("release", p, ExactAmount(PayrollsGet(Payrolls, p)))>>
             /\ PayrollsGet(Payrolls, p) = PayrollDefault => last'.log[1].amount = 0
             /\ PayrollsGet(Payrolls', p) = PayrollDefault
             /\ RecordKeys(Records', p) = {}
             /\ \A q \in Accounts \ {p} :
                  /\ (q \in DOMAIN Payrolls') = (q \in DOMAIN Payrolls)
                  /\ PayrollsGet(Payrolls', q) = PayrollsGet(Payrolls, q)
                  /\ RecordKeys(Records', q) = RecordKeys(Records, q)
                  /\ \A k \in RecordKeys(Records, q) : Records'[k] = Records[k]]_vars

\* C18: after a start rejected with ChallengeTimeout, the Record of the
\* disputed pair (the one the pathfinder's refresh of the target wrote, and
\* the one start looked up) is no longer stored, while every Payroll is as
\* before the call.
TimedOutStartRemovesRecord ==
    (last.op = "start" /\ last.result = "ChallengeTimeout") =>
        /\ PairRecords(Records, last.target, last.pathfinder) = {}
        /\ Payrolls = last.before

\* C19: stake conservation. The Payroll holds what the pathfinder's refreshes
\* locked and accrued since its last drain (C2), so (a) a successful
\* receiver_all releases UpdateStakingAmount * count + total_fee of the
\* Payroll it takes, and (b) a successful start against a pathfinder that has
\* refreshed the target, and whose Payroll covers the debit, lowers that
\* amount, the later payout, by UpdateStakingAmount plus the fee start returns.
StakeConservation ==
    /\ (last.op = "receiver_all" /\ last.result = "Ok") =>
         SumSeq(Amounts(last.log)) = ExactAmount(PayrollsGet(last.before, last.pathfinder))
    /\ (/\ last.op = "start"
        /\ last.result = "Ok"
        /\ (last.existed \/ <<last.pathfinder, last.target>> \in DOMAIN Records)
        /\ PayrollsGet(last.before, last.pathfinder).count >= 1
        /\ PayrollsGet(last.before, last.pathfinder).total_fee >= last.ret)
       => ExactAmount(PayrollsGet(Payrolls, last.pathfinder)) =
            ExactAmount(PayrollsGet(last.before, last.pathfinder))
            - (UpdateStakingAmount + last.ret)

====
